---- MODULE Spec2Model ----
(***************************************************************************)
(* Model of the composite widget of src/hierarchy/example.py: the master   *)
(* object WListForm with its state (state.cache, state.uuid) and its       *)
(* children WList, WForm and WButtons.                                     *)
(*                                                                         *)
(* state.cache is a Python dict: it is modelled as the sequence of its     *)
(* entries in insertion order.  Every slot of WListForm runs to completion *)
(* inside the Qt event loop, so one action models one user event together  *)
(* with the whole slot it triggers.  An exception raised inside a slot     *)
(* ends the slot where it is raised (the assignments made before it stay)  *)
(* and the event loop goes on.                                             *)
(***************************************************************************)
EXTENDS Integers, Sequences, FiniteSets, TLC

\* ------------------------------------------------------------------ bounds
\* uuid1() is called at most MaxUuid times (the two calls of initDB included)
MaxUuid == 3

\* the frontend makes at most MaxCalls calls (ping, stop, send)
MaxCalls == 5

\* ----------------------------------------------------------------- values
\* Python's None (state.uuid when nothing is chosen); uuids are 1, 2, ...
None == 0

\* the placeholder recv_wbuttons_new stores in both fields of a new record
Nada == "<nada>"

\* texts the user types into the form's line edits
UserNames == {"Donald"}

UserSurnames == {"Duck"}

\* an id that no uuid1() call of this run produces
ForeignUuid == MaxUuid + 1

VARIABLES
    cache,          \* WListForm.state.cache: entries [key, datum] in insertion order
    uuid,           \* WListForm.state.uuid
    nextUuid,       \* the value the next uuid1() call returns
    field_name,     \* WForm.field_name.text()
    field_surname,  \* WForm.field_surname.text()
    form_visible,   \* WForm visibility
    save_visible,   \* WButtons.save_button visibility
    delete_visible, \* WButtons.delete_button visibility
    items,          \* WList.items: the QListWidgetItems [text, uuid] in list order
    currentItem,    \* index in items of q_list_widget's current item, 0 for none
    blocked,        \* q_list_widget.signalsBlocked()
    emitted,        \* what WList.signals.uuid emitted while the last slot ran
    op,             \* the slot that ran last: [name, arg, err]
    \* src/multiprocess/example1.py
    front_pc,       \* where the frontend (parent process) is: idle, in ping(), in stop()
    back_pc,        \* where the backend (MyProcess.run) is
    front_pipe,     \* messages sent by the backend, not yet received on front_pipe
    back_pipe,      \* messages sent by the frontend, not yet received on back_pipe
    message,        \* listenFront__'s local: the message the backend received last
    msg,            \* ping's local: the message the frontend received last
    calls,          \* number of frontend calls made so far
    stopped         \* a stop() call has returned

\* the widget's variables
gvars == <<cache, uuid, nextUuid, field_name, field_surname, form_visible,
           save_visible, delete_visible, items, currentItem, blocked, emitted, op>>

\* the multiprocess's variables
pvars == <<front_pc, back_pc, front_pipe, back_pipe, message, msg, calls, stopped>>

vars == <<gvars, pvars>>

\* ------------------------------------------------------------------ Datum
Datum(name, surname, id) == [name |-> name, surname |-> surname, uuid |-> id]

\* uuid1 returning the value of the call before
uuid1_repeated(n) == n - 1

\* uuid1(): time based, every call returns a value never returned before
uuid1(n) == n

\* ------------------------------------------------- dict (insertion ordered)
Keys(c) == {c[i].key : i \in 1..Len(c)}

IndexOf(c, k) == CHOOSE i \in 1..Len(c) : c[i].key = k

\* c[k]  (callers test k \in Keys(c): a missing key is a KeyError)
dict_get(c, k) == c[IndexOf(c, k)].datum

\* c[k] = d written as a pop followed by an insert: the key always goes last
dict_set_moves_last(c, k, d) ==
    Append(SelectSeq(c, LAMBDA e : e.key # k), [key |-> k, datum |-> d])

\* c[k] = d : an existing key keeps its position, a new key goes last
dict_set(c, k, d) ==
    IF k \in Keys(c)
    THEN [c EXCEPT ![IndexOf(c, k)] = [key |-> k, datum |-> d]]
    ELSE Append(c, [key |-> k, datum |-> d])

\* c.pop(k) for a key that is present
dict_pop(c, k) == SelectSeq(c, LAMBDA e : e.key # k)

\* [datum for datum in c.values()]
dict_values(c) == [i \in 1..Len(c) |-> c[i].datum]

\* list(c.keys())[-1]
dict_last_key(c) == c[Len(c)].key

\* list(c.keys())[0]
dict_first_key(c) == c[1].key

\* ------------------------------------------------------------------ WList
\* set_data: clear() and one QListWidgetItem per datum, signals blocked
WList_set_data(datums) ==
    [i \in 1..Len(datums) |->
        [text |-> <<datums[i].name, " ", datums[i].surname>>, uuid |-> datums[i].uuid]]

\* set_uuid: the first item with that uuid becomes current, else no item is
WList_set_uuid(its, u) ==
    IF \E i \in 1..Len(its) : its[i].uuid = u
    THEN CHOOSE i \in 1..Len(its) :
            /\ its[i].uuid = u
            /\ \A j \in 1..(i - 1) : its[j].uuid # u
    ELSE 0

\* ---------------------------------------------------------------- NoSignals
\* __init__: QSignalBlocker(widget) blocks and remembers the state b it found,
\* unblock() puts b back
NoSignals_init(b) == b

\* __enter__ without the reblock
NoSignals_enter_unblocked(b) == b

\* __enter__: reblock()
NoSignals_enter(b) == TRUE

\* __exit__: unblock() puts the remembered state b back unless an exception
\* is passing through
NoSignals_exit(b, raised) == IF raised THEN TRUE ELSE b

\* __set_uuid_item_slot emitting the item's row instead of its uuid
WList_set_uuid_item_slot_row(its, i) == i

\* __set_uuid_item_slot: what signals.uuid carries for the new current item
WList_set_uuid_item_slot(its, i) == IF i = 0 THEN None ELSE its[i].uuid

\* q_list_widget's current item goes from row old to row new (0: no item)
\* while signalsBlocked() is b: currentItemChanged reaches
\* __set_uuid_item_slot only when the item changes and signals are not blocked
currentItemChanged(b, its, old, new) ==
    IF b \/ old = new THEN << >> ELSE << WList_set_uuid_item_slot(its, new) >>

\* what signals.uuid emits during set_data: clear() drops the current item
WList_set_data_emits(b, its, cur) ==
    currentItemChanged(NoSignals_enter(NoSignals_init(b)), its, cur, 0)

\* what signals.uuid emits during set_uuid(u) on the items its, none of them
\* current: setCurrentItem
WList_set_uuid_emits(b, its, u) ==
    currentItemChanged(NoSignals_enter(NoSignals_init(b)), its, 0, WList_set_uuid(its, u))

\* signalsBlocked() when set_data or set_uuid has returned normally
WList_setter_blocked(b) == NoSignals_exit(NoSignals_init(b), FALSE)

\* set_data(values of c) followed by set_uuid(u), as every slot calls them:
\* the emissions of signals.uuid, and signalsBlocked() afterwards
Refresh_emits(b, its, cur, c, u) ==
    WList_set_data_emits(b, its, cur)
      \o WList_set_uuid_emits(WList_setter_blocked(b), WList_set_data(dict_values(c)), u)

Refresh_blocked(b) == WList_setter_blocked(WList_setter_blocked(b))

\* ------------------------------------------------------------------ WForm
\* get_data reading field_surname for both entries
WForm_get_data_same_field(name, surname) == [name |-> surname, surname |-> surname]

WForm_get_data(name, surname) == [name |-> name, surname |-> surname]

\* set_visible ignoring its argument and hiding the widget
WForm_set_visible_hide(viz) == FALSE

WForm_set_visible(viz) == viz

\* --------------------------------------------------------------- WButtons
\* set_visible ignoring its argument and showing the buttons
WButtons_set_visible_show(viz) == TRUE

WButtons_set_visible(viz) == viz

\* ------------------------------------------------------------- bookkeeping
Ran(name, arg, err) == op' = [name |-> name, arg |-> arg, err |-> err]

\* ----------------------------------------------------- MyProcess, at start
\* p = MyProcess(); p.start(): the pipe is empty, run() is entering its loop
InitProcess ==
    /\ front_pc = "idle"
    /\ back_pc = "listen"
    /\ front_pipe = << >>
    /\ back_pipe = << >>
    /\ message = ""
    /\ msg = ""
    /\ calls = 0
    /\ stopped = FALSE

\* ------------------------------------------------------------------- Init
\* WListForm.__init__ with initDB
\* initDB: uid1 and uid2 are the first two values of uuid1()
InitCache ==
    << [key |-> 1, datum |-> Datum("Mickey", "Mouse", 1)],
       [key |-> 2, datum |-> Datum("Walt", "Disney", 2)] >>

Init ==
    /\ cache = InitCache
    /\ uuid = dict_first_key(InitCache)
    /\ nextUuid = 3
    /\ items = WList_set_data(dict_values(InitCache))
    /\ currentItem = WList_set_uuid(WList_set_data(dict_values(InitCache)),
                                    dict_first_key(InitCache))
    /\ field_name = dict_get(InitCache, dict_first_key(InitCache)).name
    /\ field_surname = dict_get(InitCache, dict_first_key(InitCache)).surname
    /\ form_visible = TRUE
    /\ save_visible = TRUE
    /\ delete_visible = TRUE
    /\ blocked = Refresh_blocked(FALSE)
    /\ emitted = Refresh_emits(FALSE, << >>, 0, InitCache, dict_first_key(InitCache))
    /\ op = [name |-> "init", arg |-> None, err |-> "none"]
    /\ InitProcess

\* ------------------------------------------------------ WListForm's slots
\* recv_wlist_uuid deselecting when the id it gets is the selected one
recv_wlist_uuid_toggle(u) ==
    /\ uuid' = IF u = uuid THEN None ELSE u
    /\ IF u = None \/ u = uuid
       THEN /\ UNCHANGED <<field_name, field_surname>>
            /\ Ran("recv_wlist_uuid", u, "none")
       ELSE IF u \notin Keys(cache)
       THEN /\ UNCHANGED <<field_name, field_surname>>
            /\ Ran("recv_wlist_uuid", u, "KeyError")
       ELSE /\ field_name' = dict_get(cache, u).name
            /\ field_surname' = dict_get(cache, u).surname
            /\ Ran("recv_wlist_uuid", u, "none")
    /\ UNCHANGED <<cache, nextUuid, form_visible, save_visible, delete_visible, items>>

\* recv_wlist_uuid(u): the assignment of state.uuid comes first, the lookup
\* cache[u] after it
recv_wlist_uuid(u) ==
    /\ uuid' = u
    /\ IF u = None
       THEN /\ UNCHANGED <<field_name, field_surname>>
            /\ Ran("recv_wlist_uuid", u, "none")
       ELSE IF u \notin Keys(cache)
       THEN /\ UNCHANGED <<field_name, field_surname>>
            /\ Ran("recv_wlist_uuid", u, "KeyError")
       ELSE /\ field_name' = dict_get(cache, u).name
            /\ field_surname' = dict_get(cache, u).surname
            /\ Ran("recv_wlist_uuid", u, "none")
    /\ UNCHANGED <<cache, nextUuid, form_visible, save_visible, delete_visible, items>>

recv_wbuttons_new ==
    LET id == uuid1(nextUuid)
        c  == dict_set(cache, id, Datum(Nada, Nada, id))
        l  == WList_set_data(dict_values(c))
    IN  /\ nextUuid' = nextUuid + 1
        /\ cache' = c
        /\ uuid' = id
        /\ items' = l
        /\ currentItem' = WList_set_uuid(l, id)
        /\ form_visible' = WForm_set_visible(TRUE)
        /\ save_visible' = WButtons_set_visible(TRUE)
        /\ delete_visible' = WButtons_set_visible(TRUE)
        /\ field_name' = dict_get(c, id).name
        /\ field_surname' = dict_get(c, id).surname
        /\ emitted' = Refresh_emits(blocked, items, currentItem, c, id)
        /\ blocked' = Refresh_blocked(blocked)
        /\ Ran("recv_wbuttons_new", None, "none")

recv_wbuttons_save ==
    LET record == WForm_get_data(field_name, field_surname)
        c      == dict_set(cache, uuid, Datum(record.name, record.surname, uuid))
        l      == WList_set_data(dict_values(c))
    IN  /\ cache' = c
        /\ items' = l
        /\ currentItem' = WList_set_uuid(l, uuid)
        /\ emitted' = Refresh_emits(blocked, items, currentItem, c, uuid)
        /\ blocked' = Refresh_blocked(blocked)
        /\ Ran("recv_wbuttons_save", None, "none")
        /\ UNCHANGED <<uuid, nextUuid, field_name, field_surname,
                       form_visible, save_visible, delete_visible>>

recv_wbuttons_delete ==
    IF uuid \notin Keys(cache)
    THEN \* cache.pop raises KeyError before anything is changed
         /\ Ran("recv_wbuttons_delete", None, "KeyError")
         /\ emitted' = << >>
         /\ UNCHANGED <<cache, uuid, nextUuid, field_name, field_surname, form_visible,
                        save_visible, delete_visible, items, currentItem, blocked>>
    ELSE LET c == dict_pop(cache, uuid)
             l == WList_set_data(dict_values(c))
             u == IF Len(c) < 1 THEN None ELSE dict_first_key(c)
         IN  /\ cache' = c
             /\ items' = l
             /\ uuid' = u
             /\ IF Len(c) < 1
                THEN /\ form_visible' = WForm_set_visible(FALSE)
                     /\ save_visible' = WButtons_set_visible(FALSE)
                     /\ delete_visible' = WButtons_set_visible(FALSE)
                     /\ UNCHANGED <<field_name, field_surname>>
                ELSE /\ field_name' = dict_get(c, u).name
                     /\ field_surname' = dict_get(c, u).surname
                     /\ UNCHANGED <<form_visible, save_visible, delete_visible>>
             /\ currentItem' = WList_set_uuid(l, u)
             /\ emitted' = Refresh_emits(blocked, items, currentItem, c, u)
             /\ blocked' = Refresh_blocked(blocked)
             /\ Ran("recv_wbuttons_delete", None, "none")
             /\ UNCHANGED nextUuid

\* -------------------------------------------------------------- user events
\* the list's current item changes to item i (0: to no item) outside set_data
\* and set_uuid, so with signals unblocked: q_list_widget emits
\* currentItemChanged and __set_uuid_item_slot emits signals.uuid with the
\* item's uuid, or with None when there is no new current item
ListCurrentItemChanged ==
    \E i \in 0..Len(items) :
        /\ i # currentItem
        /\ ~blocked
        /\ currentItem' = i
        /\ emitted' = currentItemChanged(blocked, items, currentItem, i)
        /\ recv_wlist_uuid(emitted'[1])
        /\ UNCHANGED <<blocked, pvars>>

\* the user types into a line edit of the (visible) form
EditName ==
    \E t \in UserNames :
        /\ form_visible
        /\ field_name' = t
        /\ Ran("edit", None, "none")
        /\ emitted' = << >>
        /\ UNCHANGED <<cache, uuid, nextUuid, field_surname, form_visible,
                       save_visible, delete_visible, items, currentItem, blocked, pvars>>

EditSurname ==
    \E t \in UserSurnames :
        /\ form_visible
        /\ field_surname' = t
        /\ Ran("edit", None, "none")
        /\ emitted' = << >>
        /\ UNCHANGED <<cache, uuid, nextUuid, field_name, form_visible,
                       save_visible, delete_visible, items, currentItem, blocked, pvars>>

\* new_button is always visible
ClickNew == /\ nextUuid <= MaxUuid
            /\ recv_wbuttons_new
            /\ UNCHANGED pvars

ClickSave == /\ save_visible
             /\ recv_wbuttons_save
             /\ UNCHANGED pvars

ClickDelete == /\ delete_visible
               /\ recv_wbuttons_delete
               /\ UNCHANGED pvars

Next == \/ ListCurrentItemChanged
        \/ EditName
        \/ EditSurname
        \/ ClickNew
        \/ ClickSave
        \/ ClickDelete

Spec == Init /\ [][Next]_vars

\* recv_wlist_uuid called with an id the list was never given: the slot is a
\* public method, the list itself only emits the uuids of its items
ForeignSelection ==
    /\ recv_wlist_uuid(ForeignUuid)
    /\ emitted' = << >>
    /\ UNCHANGED <<currentItem, blocked, pvars>>

\* recv_wlist_uuid called again with the id that is already selected
RepeatedSelection ==
    /\ uuid \in Keys(cache)
    /\ recv_wlist_uuid(uuid)
    /\ emitted' = << >>
    /\ UNCHANGED <<currentItem, blocked, pvars>>

\* the slots driven by the widgets' signals and by that call, the form's fields
\* holding what the slots put there
NextApi == \/ ListCurrentItemChanged
           \/ ClickNew
           \/ ClickSave
           \/ ClickDelete
           \/ ForeignSelection
           \/ RepeatedSelection

SpecApi == Init /\ [][NextApi]_vars

\* the widgets' events, and recv_wlist_uuid called a second time in a row
NextRepeat == \/ ListCurrentItemChanged
              \/ EditName
              \/ EditSurname
              \/ ClickNew
              \/ ClickSave
              \/ ClickDelete
              \/ RepeatedSelection

SpecRepeat == Init /\ [][NextRepeat]_vars

\* ============================================= src/multiprocess/example1.py
\* The frontend is the parent process, which calls ping() and stop(); the
\* backend is the forked process running run().  Pipe() is duplex: each end
\* receives, in order, what was sent on the other end.

\* a message that is neither "ping" nor "stop"
Unknown == "other"

\* listenFront__ answering every message but "stop"
listenFront_calls_ping_unless_stop(m) == m # "stop"

\* listenFront__: ping__() is called for "ping" only
listenFront_calls_ping(m) == m = "ping"

\* listenFront__ never returning False
listenFront_returns_true(m) == TRUE

\* listenFront__'s return value, which run assigns to self.active
listenFront_returns(m) == IF m = "stop" THEN FALSE ELSE TRUE

\* ping__ sending nothing
ping_sends_nothing(pipe) == pipe

\* ping__: self.back_pipe.send("pong")
ping_sends(pipe) == Append(pipe, "pong")

\* stop() without the join
join_returns_at_once(pc) == TRUE

\* Process.join() returns once the backend process has terminated
join_returns(pc) == pc = "terminated"

\* ping(): self.front_pipe.send("ping"), then blocks in recv
ping_send ==
    /\ front_pc = "idle"
    /\ calls < MaxCalls
    /\ calls' = calls + 1
    /\ back_pipe' = Append(back_pipe, "ping")
    /\ front_pc' = "ping"
    /\ UNCHANGED <<back_pc, front_pipe, message, msg, stopped, gvars>>

\* ping(): msg = self.front_pipe.recv() and return
ping_recv ==
    /\ front_pc = "ping"
    /\ front_pipe # << >>
    /\ msg' = Head(front_pipe)
    /\ front_pipe' = Tail(front_pipe)
    /\ front_pc' = "idle"
    /\ UNCHANGED <<back_pc, back_pipe, message, calls, stopped, gvars>>

\* stop(): self.front_pipe.send("stop"), then blocks in join
stop_send ==
    /\ front_pc = "idle"
    /\ calls < MaxCalls
    /\ calls' = calls + 1
    /\ back_pipe' = Append(back_pipe, "stop")
    /\ front_pc' = "stop"
    /\ UNCHANGED <<back_pc, front_pipe, message, msg, stopped, gvars>>

\* stop(): self.join() returns
stop_join ==
    /\ front_pc = "stop"
    /\ join_returns(back_pc)
    /\ front_pc' = "idle"
    /\ stopped' = TRUE
    /\ UNCHANGED <<back_pc, front_pipe, back_pipe, message, msg, calls, gvars>>

\* the frontend sends some other message on front_pipe (the case of
\* listenFront__'s else branch); the send does not block
send_unknown ==
    /\ front_pc = "idle"
    /\ calls < MaxCalls
    /\ calls' = calls + 1
    /\ back_pipe' = Append(back_pipe, Unknown)
    /\ UNCHANGED <<front_pc, back_pc, front_pipe, message, msg, stopped, gvars>>

\* run's loop: listenFront__ receives a message; on "ping" it goes on into
\* ping__, otherwise it returns and run loops or leaves the loop
listenFront ==
    /\ back_pc = "listen"
    /\ back_pipe # << >>
    /\ message' = Head(back_pipe)
    /\ back_pipe' = Tail(back_pipe)
    /\ back_pc' = IF listenFront_calls_ping(Head(back_pipe)) THEN "ping__"
                  ELSE IF listenFront_returns(Head(back_pipe)) THEN "listen"
                  ELSE "exit"
    /\ UNCHANGED <<front_pc, front_pipe, msg, calls, stopped, gvars>>

\* ping__ sends "pong"; listenFront__ returns and run loops or leaves the loop
ping__ ==
    /\ back_pc = "ping__"
    /\ front_pipe' = ping_sends(front_pipe)
    /\ back_pc' = IF listenFront_returns(message) THEN "listen" ELSE "exit"
    /\ UNCHANGED <<front_pc, back_pipe, message, msg, calls, stopped, gvars>>

\* run has left its loop: it prints and the process ends
run_exit ==
    /\ back_pc = "exit"
    /\ back_pc' = "terminated"
    /\ UNCHANGED <<front_pc, front_pipe, back_pipe, message, msg, calls, stopped, gvars>>

NextProcess == \/ ping_send
               \/ ping_recv
               \/ stop_send
               \/ stop_join
               \/ send_unknown
               \/ listenFront
               \/ ping__
               \/ run_exit

SpecProcess == Init /\ [][NextProcess]_vars

\* both processes are scheduled, and a blocking recv or join returns once it can:
\* every step but the frontend's decision to make a call is taken when it stays
\* possible
FairProcess ==
    /\ SpecProcess
    /\ WF_vars(ping_recv)
    /\ WF_vars(stop_join)
    /\ WF_vars(listenFront)
    /\ WF_vars(ping__)
    /\ WF_vars(run_exit)

TypeOK ==
    /\ uuid \in 0..ForeignUuid
    /\ nextUuid \in 1..(MaxUuid + 1)
    /\ currentItem \in 0..Len(items)
    /\ form_visible \in BOOLEAN
    /\ save_visible \in BOOLEAN
    /\ delete_visible \in BOOLEAN

\* ---------------------------------------------------------------- the steps
\* the step just taken ran that slot (op' names it)
NewStep == op'.name = "recv_wbuttons_new"

SaveStep == op'.name = "recv_wbuttons_save"

DeleteStep == op'.name = "recv_wbuttons_delete"

SelectStep == op'.name = "recv_wlist_uuid"

Returned == op'.err = "none"

\* every record of c other than the one of key k is in d, unchanged
OthersKept(c, d, k) ==
    \A j \in Keys(c) \ {k} : j \in Keys(d) /\ dict_get(d, j) = dict_get(c, j)

\* ------------------------------------------------------------------ claims
\* C1: in every state reached by the slots recv_wlist_uuid, recv_wbuttons_new,
\* recv_wbuttons_save and recv_wbuttons_delete from the initial state,
\* state.uuid is None or a key of state.cache.
C1_SelectionInStore == uuid = None \/ uuid \in Keys(cache)

\* a delete has moved the selection to a record that is still stored
C1_Witness ==
    /\ op.name = "recv_wbuttons_delete"
    /\ op.err = "none"
    /\ uuid # None
    /\ uuid \in Keys(cache)

\* C2: whenever the save and delete buttons are visible, state.uuid is not None.
C2_ButtonsNeedSelection == (save_visible /\ delete_visible) => uuid # None

\* C3: a save or a delete entered with state.uuid = None ends in an error and
\* leaves state.cache and state.uuid as they were.
C3_NoSelectionIsAnError ==
    [][((SaveStep \/ DeleteStep) /\ uuid = None)
         => (~Returned /\ cache' = cache /\ uuid' = uuid)]_vars

\* C4: recv_wlist_uuid with an id that is neither None nor a key of the cache
\* raises nothing and leaves cache, uuid and the form's fields as they were.
C4_UnknownIdIsNoOp ==
    [][(SelectStep /\ op'.arg # None /\ op'.arg \notin Keys(cache))
         => /\ Returned
            /\ cache' = cache
            /\ uuid' = uuid
            /\ field_name' = field_name
            /\ field_surname' = field_surname]_vars

\* C5: recv_wbuttons_new adds exactly one record, under a key that was not in
\* the cache, leaves every stored record as it was and makes the new key the
\* selection.
C5_NewAddsOne ==
    [][NewStep
         => /\ Len(cache') = Len(cache) + 1
            /\ Cardinality(Keys(cache')) = Cardinality(Keys(cache)) + 1
            /\ uuid' \notin Keys(cache)
            /\ uuid' \in Keys(cache')
            /\ OthersKept(cache, cache', uuid')]_vars

\* a new record was added to the two initial ones and is selected
C5_Witness ==
    /\ op.name = "recv_wbuttons_new"
    /\ Len(cache) = 3
    /\ uuid = 3
    /\ Keys(cache) = {1, 2, 3}

\* C6: whenever the save button is visible, recv_wbuttons_save changes neither
\* the number of records nor the set of keys of the cache.
C6_SaveKeepsKeys ==
    [][SaveStep => (Len(cache') = Len(cache) /\ Keys(cache') = Keys(cache))]_vars

\* C7: recv_wbuttons_save with state.uuid = s, not None, stores under s a record
\* with the form's name and surname and with uuid s, leaves the other records
\* and the selection as they were.
C7_SaveOverwritesSelected ==
    [][(SaveStep /\ uuid # None)
         => /\ Returned
            /\ uuid \in Keys(cache')
            /\ dict_get(cache', uuid) =
                 [name |-> field_name, surname |-> field_surname, uuid |-> uuid]
            /\ Keys(cache') = Keys(cache)
            /\ OthersKept(cache, cache', uuid)
            /\ uuid' = uuid]_vars

\* record 1 was saved as Donald Duck while record 2 is still Walt Disney
C7_Witness ==
    /\ op.name = "recv_wbuttons_save"
    /\ uuid = 1
    /\ cache = << [key |-> 1, datum |-> [name |-> "Donald", surname |-> "Duck", uuid |-> 1]],
                  [key |-> 2, datum |-> [name |-> "Walt", surname |-> "Disney", uuid |-> 2]] >>

\* C8: recv_wbuttons_delete with state.uuid = s, not None, removes the record s
\* and no other, so the cache has one record less; when the cache is empty
\* afterwards, state.uuid is None and the form and the save and delete buttons
\* are hidden.
C8_DeleteRemovesSelected ==
    [][(DeleteStep /\ uuid # None)
         => /\ Returned
            /\ Len(cache') = Len(cache) - 1
            /\ Keys(cache') = Keys(cache) \ {uuid}
            /\ uuid \in Keys(cache)
            /\ OthersKept(cache, cache', uuid)
            /\ (Len(cache') = 0
                  => /\ uuid' = None
                     /\ ~form_visible'
                     /\ ~save_visible'
                     /\ ~delete_visible')]_vars

\* the last record was deleted
C8_Witness ==
    /\ op.name = "recv_wbuttons_delete"
    /\ op.err = "none"
    /\ Len(cache) = 0
    /\ uuid = None
    /\ ~form_visible

\* C9: a recv_wbuttons_delete that removed a record and left the cache non-empty
\* selects the first key of the cache, shows that record in the form and makes
\* the list item of that uuid the current one.
C9_DeleteSelectsFirst ==
    [][(DeleteStep /\ Returned /\ Len(cache') > 0)
         => /\ uuid' = cache'[1].key
            /\ field_name' = cache'[1].datum.name
            /\ field_surname' = cache'[1].datum.surname
            /\ currentItem' \in 1..Len(items')
            /\ items'[currentItem'].uuid = uuid']_vars

\* a record other than the first was deleted, two are left, the first is selected
C9_Witness ==
    /\ op.name = "recv_wbuttons_delete"
    /\ op.err = "none"
    /\ Len(cache) = 2
    /\ cache[1].key = 1
    /\ uuid = 1
    /\ field_name = cache[1].datum.name

\* C10 as claimed: recv_wbuttons_new on an empty cache leaves one record with
\* empty name and surname, selected, with the form and the buttons visible.
C10_NewOnEmptyIsBlank ==
    [][(NewStep /\ Len(cache) = 0)
         => /\ Len(cache') = 1
            /\ cache'[1].datum.name = ""
            /\ cache'[1].datum.surname = ""
            /\ uuid' = cache'[1].key
            /\ form_visible' /\ save_visible' /\ delete_visible']_vars

\* C10 amended: recv_wbuttons_new on an empty cache leaves one record whose name
\* and surname are both the placeholder "<nada>", selected, with the form and
\* the save and delete buttons visible.
C10_NewOnEmptyIsPlaceholder ==
    [][(NewStep /\ Len(cache) = 0)
         => /\ Len(cache') = 1
            /\ cache'[1].datum.name = Nada
            /\ cache'[1].datum.surname = Nada
            /\ uuid' = cache'[1].key
            /\ form_visible' /\ save_visible' /\ delete_visible']_vars

\* both initial records were deleted and a new one was made
C10_Witness ==
    /\ op.name = "recv_wbuttons_new"
    /\ Len(cache) = 1
    /\ Keys(cache) = {3}
    /\ uuid = 3
    /\ form_visible

\* the uuids of the list's items, in list order
ItemUuids(its) == [i \in 1..Len(its) |-> its[i].uuid]

\* the list its shows exactly the records of c, in c's order
ListShows(its, c) ==
    /\ Len(its) = Len(c)
    /\ \A i \in 1..Len(c) :
         /\ its[i].uuid = c[i].key
         /\ its[i].text = <<c[i].datum.name, " ", c[i].datum.surname>>

\* C11: when recv_wbuttons_new, recv_wbuttons_save or recv_wbuttons_delete has
\* returned, the list holds the records of the cache in cache order, its
\* current item is the one of state.uuid (no item when state.uuid is None) and,
\* when state.uuid is not None, the form's fields are those of cache[state.uuid].
C11_ViewsInSync ==
    [][((NewStep \/ SaveStep \/ DeleteStep) /\ Returned)
         => /\ ListShows(items', cache')
            /\ (uuid' = None => currentItem' = 0)
            /\ (uuid' # None
                  => /\ currentItem' \in 1..Len(items')
                     /\ items'[currentItem'].uuid = uuid'
                     /\ uuid' \in Keys(cache')
                     /\ field_name' = dict_get(cache', uuid').name
                     /\ field_surname' = dict_get(cache', uuid').surname)]_vars

\* C12: while __init__, recv_wbuttons_new, recv_wbuttons_save and
\* recv_wbuttons_delete run, set_data and set_uuid make signals.uuid emit
\* nothing, and when they are done q_list_widget's signals are not blocked; a
\* change of the current item by the user is then emitted with the item's uuid.
C12_SettersEmitNothing ==
    /\ (op.name \in {"init", "recv_wbuttons_new", "recv_wbuttons_save",
                     "recv_wbuttons_delete"}
          => emitted = << >>)
    /\ ~blocked
    /\ (op.name = "recv_wlist_uuid" => emitted = << uuid >>)

\* a delete has rebuilt a list that had a current item and has set the new one
C12_Witness ==
    /\ op.name = "recv_wbuttons_delete"
    /\ op.err = "none"
    /\ Len(items) = 2
    /\ currentItem = 1
    /\ emitted = << >>
    /\ ~blocked

\* C13 as claimed: state.uuid is None only when the cache is empty, and from a
\* state with state.uuid = None only recv_wbuttons_new changes state.uuid or
\* the cache.
C13_NoSelectionOnlyNew ==
    [][/\ (uuid' = None => Len(cache') = 0)
       /\ ((uuid = None /\ ~NewStep) => (uuid' = uuid /\ cache' = cache))]_vars

\* C13 amended: from a state with state.uuid = None and an empty cache, only
\* recv_wbuttons_new changes state.uuid or the cache.
C13_EmptyOnlyNew ==
    [][(uuid = None /\ Len(cache) = 0)
         => (NewStep \/ (uuid' = uuid /\ cache' = cache))]_vars

\* every record was deleted: nothing is selected, the list is empty, the form
\* and the save and delete buttons are hidden
C13_Witness ==
    /\ op.name = "recv_wbuttons_delete"
    /\ uuid = None
    /\ Len(cache) = 0
    /\ Len(items) = 0
    /\ ~save_visible
    /\ ~form_visible

\* C14: recv_wlist_uuid(id), with id a key of the cache, called right after
\* recv_wlist_uuid(id) has returned, leaves state.uuid, the cache and the form's
\* fields as the first call left them.
C14_SelectionIdempotent ==
    [][(/\ SelectStep
        /\ op.name = "recv_wlist_uuid"
        /\ op.err = "none"
        /\ op'.arg = op.arg
        /\ op'.arg # None
        /\ op'.arg \in Keys(cache))
         => /\ Returned
            /\ uuid' = uuid
            /\ cache' = cache
            /\ field_name' = field_name
            /\ field_surname' = field_surname]_vars

\* recv_wlist_uuid(2) has run: record 2 is selected and shown in the form
C14_Witness ==
    /\ op = [name |-> "recv_wlist_uuid", arg |-> 2, err |-> "none"]
    /\ uuid = 2
    /\ 2 \in Keys(cache)
    /\ field_name = dict_get(cache, 2).name
    /\ field_surname = dict_get(cache, 2).surname

\* C15: the list shows the records in the order their keys were inserted:
\* recv_wbuttons_new puts the new item last, recv_wbuttons_save leaves the item
\* of a stored record where it was, recv_wbuttons_delete leaves the other items
\* in their order.
C15_ListInInsertionOrder ==
    [][/\ (NewStep => ItemUuids(items') = Append(ItemUuids(items), uuid'))
       /\ ((SaveStep /\ uuid \in Keys(cache)) => ItemUuids(items') = ItemUuids(items))
       /\ ((DeleteStep /\ Returned)
             => ItemUuids(items') = SelectSeq(ItemUuids(items), LAMBDA k : k # uuid))]_vars

\* the first of three records was saved and is still the first item
C15_Witness ==
    /\ op.name = "recv_wbuttons_save"
    /\ uuid = 1
    /\ ItemUuids(items) = <<1, 2, 3>>
    /\ items[1].text = <<"Donald", " ", "Duck">>

\* the backend is in run's loop
Running == back_pc \in {"listen", "ping__"}

\* the number of messages m in the pipe q
Count(q, m) == Cardinality({i \in 1..Len(q) : q[i] = m})

\* C16: a ping() made while the backend is running returns, and it returns
\* only when the backend has received its "ping" and sent "pong"; the message
\* it receives is "pong".
C16_PingRoundTrip ==
    /\ [][(front_pc = "ping" /\ front_pc' = "idle")
            => /\ msg' = "pong"
               /\ Count(back_pipe, "ping") = 0
               /\ back_pc # "ping__"
               /\ message = "ping"]_vars
    /\ ((front_pc = "ping" /\ Running) ~> (front_pc = "idle" /\ msg = "pong"))

\* a ping() has returned with "pong" and the backend listens again
C16_Witness ==
    /\ front_pc = "idle"
    /\ msg = "pong"
    /\ message = "ping"
    /\ back_pc = "listen"
    /\ front_pipe = << >>

\* C17: stop() returns only when the backend has left its loop and terminated,
\* and with both processes scheduled fairly a stop() that was called returns,
\* after the backend has consumed everything sent before the "stop".
C17_StopJoins ==
    /\ [][(front_pc = "stop" /\ front_pc' = "idle") => back_pc = "terminated"]_vars
    /\ [][(back_pc = "listen" /\ back_pc' = "exit")
            => (message' = "stop" /\ Count(back_pipe', "stop") = Count(back_pipe, "stop") - 1
                /\ Head(back_pipe) = "stop")]_vars
    /\ (front_pc = "stop" ~> (front_pc = "idle" /\ stopped /\ back_pc = "terminated"))

\* stop() has returned after a message sent before it was consumed too
C17_Witness ==
    /\ stopped
    /\ front_pc = "idle"
    /\ back_pc = "terminated"
    /\ back_pipe = << >>
    /\ calls >= 2

\* C18: the backend sends one "pong" for each "ping" it receives and nothing
\* else, leaves its loop on "stop" only, and after any other message goes on
\* listening without a reply; front_pipe never holds more than one unread
\* message, and holds one only while the frontend waits in ping().
C18_TwoRequestTypes ==
    [][/\ Len(front_pipe') <= 1
       /\ (front_pipe' # << >> => (front_pipe' = <<"pong">> /\ front_pc' = "ping"))
       /\ (back_pc' = "ping__" => message' = "ping")
       /\ (back_pc' \in {"exit", "terminated"} => message' = "stop")
       /\ (front_pipe' # front_pipe /\ Len(front_pipe') > Len(front_pipe)
             => (back_pc = "ping__" /\ front_pipe' = Append(front_pipe, "pong")))
       /\ ((back_pc = "listen" /\ back_pipe # << >> /\ back_pipe' = Tail(back_pipe))
             => /\ (Head(back_pipe) = "ping" => back_pc' = "ping__")
                /\ (Head(back_pipe) = "stop" => back_pc' = "exit")
                /\ (Head(back_pipe) \notin {"ping", "stop"} => back_pc' = "listen")
                /\ front_pipe' = front_pipe)
       /\ (back_pc = "ping__" => (back_pc' \in {"ping__", "listen"}
                                   /\ (back_pc' = "listen" =>
                                         front_pipe' = Append(front_pipe, "pong"))))]_vars

\* the backend has received an unknown message: it listens again, no reply
C18_Witness ==
    /\ message = Unknown
    /\ back_pc = "listen"
    /\ front_pipe = << >>
    /\ msg = "pong"

\* C19: once a stop() has returned, a ping() that is under way stays under way:
\* its "ping" stays unread in the pipe and front_pipe stays empty.
C19_PingAfterStopBlocks ==
    [][(stopped /\ front_pc = "ping")
         => /\ front_pc' = "ping"
            /\ back_pipe' = back_pipe
            /\ Count(back_pipe, "ping") >= 1
            /\ front_pipe = << >>
            /\ front_pipe' = << >>
            /\ back_pc' = "terminated"]_vars

\* the frontend is in a ping() made after stop() returned
C19_Witness ==
    /\ stopped
    /\ front_pc = "ping"
    /\ back_pc = "terminated"
    /\ Count(back_pipe, "ping") = 1
    /\ front_pipe = << >>
====
